---- MODULE Spec2Model ----
(***************************************************************************)
(* Model of the sakuin indexing service: the Service orchestrator (Index,  *)
(* GetFromIndex, UpdateIndex, DeleteFromIndex, generateUUID), the          *)
(* sync.Map-backed in-memory object and document stores, the recursive     *)
(* document merge and the JSON (un)marshalling of metadata.                *)
(***************************************************************************)
EXTENDS Integers, Sequences, FiniteSets, TLC

(***************************************************************************)
(* Bounds of the model.                                                    *)
(***************************************************************************)
\* raw values the randomness source can yield are 0..MaxRaw
MaxRaw == 2
\* longest scripted randomness source (number of 16-byte values it holds)
MaxRand == 3

RawValues == 0..MaxRaw

(***************************************************************************)
(* Identifiers.  uuid.NewRandomFromReader reads 16 bytes and overwrites    *)
(* the version and variant bits before the value is rendered, so distinct  *)
(* raw values can have the same rendering.  Here the lowest bit plays the  *)
(* role of the overwritten bits.                                           *)
(***************************************************************************)
Render(raw) == (raw \div 2) * 2 + 1

\* the empty string returned next to an error
EmptyId == 0

Ids == {Render(r) : r \in RawValues}

\* identifiers a caller can ask for: every generated one, and one that is never generated
ReqIds == Ids \cup {EmptyId}

(***************************************************************************)
(* Documents: map[string]interface{}.  A value is a scalar or a nested     *)
(* document.                                                               *)
(***************************************************************************)
KeysSorted == <<"a", "b", "x", "y">>

EmptyDoc == <<>>

Num(n) == [t |-> "num", n |-> n, d |-> EmptyDoc]

Sub(d) == [t |-> "doc", n |-> 0, d |-> d]

IsDoc(v) == v.t = "doc"

(***************************************************************************)
(* JSON text carried by a JSONMetadata message: an object is its sequence  *)
(* of members as written (any order, keys may repeat); "arr" stands for a  *)
(* top-level value that is not an object.                                  *)
(***************************************************************************)
JNum(n) == [t |-> "num", n |-> n, m |-> <<>>]

JObj(m) == [t |-> "obj", n |-> 0, m |-> m]

JArr == [t |-> "arr", n |-> 0, m |-> <<>>]

Member(k, v) == [k |-> k, v |-> v]

RECURSIVE ParseMembers(_)
\* json.Unmarshal into a map: members in order, a repeated key keeps the last value
ParseMembers(m) ==
    IF m = <<>> THEN EmptyDoc
    ELSE LET init == ParseMembers(SubSeq(m, 1, Len(m) - 1))
             last == m[Len(m)]
             val  == IF last.v.t = "num" THEN Num(last.v.n)
                     ELSE Sub(ParseMembers(last.v.m))
         IN  [k \in (DOMAIN init) \cup {last.k} |->
                 IF k = last.k THEN val ELSE init[k]]

\* unmarshalAnyToJSON fails unless the JSON text is an object
UnmarshalOk(json) == json.t = "obj"

unmarshalAnyToJSON(json) == ParseMembers(json.m)

RECURSIVE MarshalDoc(_)
\* json.Marshal of a map writes the members sorted by key
MarshalDoc(doc) ==
    LET keys == SelectSeq(KeysSorted, LAMBDA k : k \in DOMAIN doc)
    IN  [i \in 1..Len(keys) |->
            Member(keys[i],
                   IF IsDoc(doc[keys[i]]) THEN JObj(MarshalDoc(doc[keys[i]].d))
                   ELSE JNum(doc[keys[i]].n))]

marshalJSONToAny(doc) == JObj(MarshalDoc(doc))

(***************************************************************************)
(* mergeDocs(dst, src): every key of src missing from dst is copied; a     *)
(* nested src value is merged into the nested dst value; a scalar src      *)
(* value leaves dst as it is; a nested src value over a scalar dst value   *)
(* panics.                                                                 *)
(***************************************************************************)
\* variant: two nested values under one key panic
MergePanics_BothNested(dst, src) ==
    \E k \in (DOMAIN src) \cap (DOMAIN dst) : IsDoc(src[k]) /\ IsDoc(dst[k])

RECURSIVE MergePanics(_, _)
MergePanics(dst, src) ==
    \E k \in (DOMAIN src) \cap (DOMAIN dst) :
        /\ IsDoc(src[k])
        /\ \/ ~IsDoc(dst[k])
           \/ MergePanics(dst[k].d, src[k].d)

\* variant: a key found on both sides keeps the destination's value, nested or not
mergeDocs_Shallow(dst, src) ==
    [k \in (DOMAIN dst) \cup (DOMAIN src) |-> IF k \in DOMAIN dst THEN dst[k] ELSE src[k]]

RECURSIVE mergeDocs(_, _)
mergeDocs(dst, src) ==
    [k \in (DOMAIN dst) \cup (DOMAIN src) |->
        IF k \notin DOMAIN dst THEN src[k]
        ELSE IF k \notin DOMAIN src THEN dst[k]
        ELSE IF ~IsDoc(src[k]) THEN dst[k]
        ELSE IF ~IsDoc(dst[k]) THEN dst[k]
        ELSE Sub(mergeDocs(dst[k].d, src[k].d))]

(***************************************************************************)
(* Errors.  ObjectDoesNotExistErr and DocumentDoesNotExistErr carry the id;*)
(* BackendFailure is the error a store implementation other than the       *)
(* in-memory one may return from any call (the mocked stores of the tests).*)
(***************************************************************************)
Err(kind, id) == [kind |-> kind, id |-> id]

NoErr == Err("nil", EmptyId)

ObjectDoesNotExistErr(id) == Err("ObjectDoesNotExistErr", id)

DocumentDoesNotExistErr(id) == Err("DocumentDoesNotExistErr", id)

BackendFailure == Err("BackendFailure", EmptyId)

UnmarshalErr == Err("UnmarshalErr", EmptyId)

\* io.EOF of the exhausted randomness source
EOF == Err("EOF", EmptyId)

\* context.Canceled / context.DeadlineExceeded, the error of a context that is done
Canceled == Err("Canceled", EmptyId)

\* the operations of the Service that fan out over the two stores
FanOutOps == {"Index", "GetFromIndex", "UpdateIndex"}

(***************************************************************************)
(* ReadParts.  A content type is what mime.ParseMediaType makes of it:     *)
(* malformed (an error), or a media type and whether a boundary parameter  *)
(* is given.  A media type is a base and what follows it, so that          *)
(* "multipart/form-data-x" has the prefix "multipart/form-data" without    *)
(* being it.  A body is a sequence of parts; a part has a form name, and   *)
(* its content is a sequence of JSON values (json, with syntaxOk FALSE     *)
(* when it is not JSON at all) and bytes; readFails says that the          *)
(* underlying reader fails inside the part, after bytes.                   *)
(***************************************************************************)
\* longest body, in parts
MaxParts == 3

MediaType(base, suffix) == [base |-> base, suffix |-> suffix]

NoMedia == MediaType("", "")

ContentType(malformed, mediaType, boundary) ==
    [malformed |-> malformed, mediaType |-> mediaType, boundary |-> boundary]

ContentTypeInputs ==
    { ContentType(FALSE, MediaType("application/json", ""), FALSE),
      ContentType(FALSE, MediaType("multipart/form-data", ""), TRUE),
      ContentType(FALSE, MediaType("multipart/form-data", ""), FALSE),
      ContentType(FALSE, MediaType("multipart/form-data", "-x"), TRUE),
      ContentType(TRUE, NoMedia, FALSE) }

\* strings.HasPrefix(mediaType, "multipart/form-data")
HasMultipartPrefix(mediaType) == mediaType.base = "multipart/form-data"

\* the media type is multipart/form-data
IsMultipartFormData(mediaType) == mediaType = MediaType("multipart/form-data", "")

PartErr(kind, mediaType) == [kind |-> kind, mediaType |-> mediaType]

NoPartErr == PartErr("nil", NoMedia)

ContentTypeError(mediaType) == PartErr("ContentTypeError", mediaType)

ErrMissingBoundary == PartErr("ErrMissingBoundary", NoMedia)

\* the error of mime.ParseMediaType
MimeErr == PartErr("mime", NoMedia)

\* the error of json.Decoder.Decode on text that is not JSON
SyntaxErr == PartErr("json.SyntaxError", NoMedia)

\* io.EOF of json.Decoder.Decode on an empty part
DecodeEOF == PartErr("EOF", NoMedia)

\* the error of the underlying reader
ReadErr == PartErr("ReadErr", NoMedia)

Part(name, json, syntaxOk, bytes, readFails) ==
    [name |-> name, json |-> json, syntaxOk |-> syntaxOk, bytes |-> bytes,
     readFails |-> readFails]

MetadataPart(json, syntaxOk) == Part("metadata", json, syntaxOk, <<>>, FALSE)

ObjectPart(bytes, readFails) == Part("object", <<>>, TRUE, bytes, readFails)

FilePart(bytes, readFails) == Part("file", <<>>, TRUE, bytes, readFails)

PartInputs ==
    { MetadataPart(<<JObj(<<Member("b", JNum(2)), Member("a", JNum(1))>>)>>, TRUE),
      MetadataPart(<<JArr, JObj(<<Member("a", JNum(1))>>)>>, TRUE),
      MetadataPart(<<>>, TRUE),
      MetadataPart(<<>>, FALSE),
      ObjectPart(<<1>>, FALSE),
      ObjectPart(<<>>, FALSE),
      ObjectPart(<<2>>, TRUE),
      FilePart(<<1>>, FALSE),
      FilePart(<<>>, TRUE) }

RECURSIVE SeqsUpTo(_, _)
\* the sequences of at most n elements of S
SeqsUpTo(S, n) ==
    IF n = 0 THEN {<<>>}
    ELSE LET shorter == SeqsUpTo(S, n - 1)
         IN  shorter \cup {Append(b, e) : b \in {x \in shorter : Len(x) = n - 1}, e \in S}

BodyInputs == SeqsUpTo(PartInputs, MaxParts)

\* what ReadParts returns: metadata and object (nil unless has...), err, and
\* read, the number of parts of the body the scan has got to
NoParts ==
    [hasMeta |-> FALSE, metadata |-> JArr, hasObj |-> FALSE, object |-> <<>>,
     err |-> NoPartErr, read |-> 0]

NoRequest == [contentType |-> ContentType(TRUE, NoMedia, FALSE), body |-> <<>>]

\* variant: the boundary parameter is not looked for
HasBoundary_Always(ct) == TRUE

\* params["boundary"] is present
HasBoundary(ct) == ct.boundary

\* variant: a part of any other name is taken as the object
ReadPart_DefaultIsObject(acc, p) ==
    IF p.name = "metadata"
    THEN IF ~p.syntaxOk THEN [acc EXCEPT !.err = SyntaxErr]
         ELSE IF p.json = <<>> THEN [acc EXCEPT !.err = DecodeEOF]
         ELSE [acc EXCEPT !.hasMeta = TRUE, !.metadata = p.json[1]]
    ELSE [acc EXCEPT !.hasObj = TRUE, !.object = p.bytes,
                     !.err = IF p.readFails THEN ReadErr ELSE NoPartErr]

\* the switch on the part's form name: "metadata" is decoded as one JSON value,
\* "object" is read whole, any other part is skipped by the next NextPart
ReadPart(acc, p) ==
    IF p.name = "metadata"
    THEN IF ~p.syntaxOk THEN [acc EXCEPT !.err = SyntaxErr]
         ELSE IF p.json = <<>> THEN [acc EXCEPT !.err = DecodeEOF]
         ELSE [acc EXCEPT !.hasMeta = TRUE, !.metadata = p.json[1]]
    ELSE IF p.name = "object"
    THEN [acc EXCEPT !.hasObj = TRUE, !.object = p.bytes,
                     !.err = IF p.readFails THEN ReadErr ELSE NoPartErr]
    ELSE [acc EXCEPT !.err = IF p.readFails THEN ReadErr ELSE NoPartErr]

\* variant: a body without an object part is an error
ScanEnd_RequireObject(acc) ==
    IF acc.hasObj THEN [acc EXCEPT !.err = NoPartErr]
    ELSE [acc EXCEPT !.err = PartErr("ErrMissingObjectPart", NoMedia)]

\* NextPart returned io.EOF: err = nil; return
ScanEnd(acc) == [acc EXCEPT !.err = NoPartErr]

RECURSIVE ScanParts_SkipsFailures(_, _, _)
\* variant: a part that fails is skipped and the scan goes on
ScanParts_SkipsFailures(body, i, acc) ==
    IF i > Len(body) THEN ScanEnd(acc)
    ELSE LET next == [ReadPart(acc, body[i]) EXCEPT !.read = i]
         IN  IF next.err # NoPartErr
             THEN ScanParts_SkipsFailures(body, i + 1, [acc EXCEPT !.read = i])
             ELSE ScanParts_SkipsFailures(body, i + 1, next)

RECURSIVE ScanParts(_, _, _)
\* the loop over mr.NextPart(), at part i
ScanParts(body, i, acc) ==
    IF i > Len(body) THEN ScanEnd(acc)
    ELSE LET next == [ReadPart(acc, body[i]) EXCEPT !.read = i]
         IN  IF next.err # NoPartErr THEN next
             ELSE ScanParts(body, i + 1, next)

ReadParts(contentType, body) ==
    IF contentType.malformed THEN [NoParts EXCEPT !.err = MimeErr]
    ELSE IF ~HasMultipartPrefix(contentType.mediaType)
    THEN [NoParts EXCEPT !.err = ContentTypeError(contentType.mediaType)]
    ELSE IF ~HasBoundary(contentType) THEN [NoParts EXCEPT !.err = ErrMissingBoundary]
    ELSE ScanParts(body, 1, NoParts)

\* longest body of a request to the Index handler, in parts
MaxHttpParts == 2

HttpBodyInputs == SeqsUpTo(PartInputs, MaxHttpParts)

\* no HTTP status
NoStatus == 0

StatusOK == 200

StatusBadRequest == 400

StatusInternalServerError == 500

(***************************************************************************)
(* State.                                                                  *)
(*   objects, docs : the sync.Map of each in-memory store (a key is        *)
(*                   present iff it is in the DOMAIN)                      *)
(*   rander  : the randomness source.  A scripted source (a              *)
(*             strings.Reader) yields script[pos+1] and fails once the     *)
(*             script is read.  Any other source (crypto/rand.Reader)      *)
(*             yields a value not known in advance, or fails; the model    *)
(*             lets it yield at most MaxRand values.  Once failed, a       *)
(*             source stays failed (eof).                                  *)
(*   calls   : the Service calls, one slot per caller goroutine            *)
(*   faults  : whether the stores are ones whose calls can fail            *)
(*   limit   : how many calls may be in flight at once                     *)
(*   mu      : the sync.Mutex of the mutex-guarded object store is locked  *)
(*   crashed : a goroutine panicked and took the process down              *)
(*   lastIndex : history variable, the last successful Index request, kept *)
(*               while nothing else writes under its identifier            *)
(***************************************************************************)
VARIABLES objects, docs, rander, calls, faults, limit, mu, crashed, lastIndex

vars == <<objects, docs, rander, calls, faults, limit, mu, crashed, lastIndex>>

Procs == {1, 2}

ObjInputs == {<<1>>, <<2, 2>>}

MetaInputs ==
    { JObj(<<Member("b", JNum(2)), Member("a", JNum(1))>>),
      JObj(<<Member("a", JObj(<<Member("x", JNum(1))>>))>>),
      JArr }

FaultChoices == IF faults THEN BOOLEAN ELSE {FALSE}

(***************************************************************************)
(* The in-memory stores.                                                   *)
(***************************************************************************)
StatInfo(exists, size) == [Exists |-> exists, Size |-> size]

ObjectStat(id) ==
    StatInfo(id \in DOMAIN objects,
             IF id \in DOMAIN objects THEN Len(objects[id]) ELSE 0)

DocumentStat(id) ==
    StatInfo(id \in DOMAIN docs,
             IF id \in DOMAIN docs THEN Cardinality(DOMAIN docs[id]) ELSE 0)

\* sync.Map.Store
Store(m, id, v) == [i \in (DOMAIN m) \cup {id} |-> IF i = id THEN v ELSE m[i]]

NumOfObects == Cardinality(DOMAIN objects)

NumOfDocs == Cardinality(DOMAIN docs)

(***************************************************************************)
(* A call.  pc: "idle", "gen" (in generateUUID), "fanout" (branches        *)
(* running, the caller in g.Wait), "returned", "panicked".  ob and mb are  *)
(* the positions of the object and the metadata branch.  gerr and          *)
(* cancelled are the errgroup's first error and its context.  The contents *)
(* of a request (object, metadata) are read only by the branch that uses   *)
(* them and are chosen in the step that reads them.  cands is the history  *)
(* of the candidates generateUUID probed; nObj0, nDoc0 and pos0 record the *)
(* store sizes and the number of values read when the call began,          *)
(* objExisted and docExisted whether the requested id was in each store    *)
(* then.  oerr and merr are what each branch returned.  ctxDone says that   *)
(* the caller cancelled the context it passed (or its deadline passed).    *)
(* A returned call keeps only what its caller receives.  A call made on a  *)
(* store directly has pc "call" between its Load and its Store or Delete;  *)
(* doc is the document passed to Upsert (or to mergeDocs), respDoc and     *)
(* stat are what Get and Stat returned.  req is the content type and body  *)
(* given to ReadParts or to the Index handler, parts what ReadParts        *)
(* returned, viaHttp whether the call was made by the Index handler and    *)
(* status the HTTP status the handler answered with.                       *)
(***************************************************************************)
NoIndex == [valid |-> FALSE, id |-> EmptyId, object |-> <<>>, hasMeta |-> FALSE, metadata |-> JArr]

IdleCall ==
    [op |-> "none", pc |-> "idle", id |-> EmptyId,
     hasObj |-> FALSE, object |-> <<>>, hasMeta |-> FALSE, metadata |-> JArr,
     ob |-> "none", mb |-> "none", loadedOk |-> FALSE, loaded |-> EmptyDoc,
     oerr |-> NoErr, merr |-> NoErr, gerr |-> NoErr, cancelled |-> FALSE,
     ctxDone |-> FALSE,
     objExisted |-> FALSE, docExisted |-> FALSE,
     err |-> NoErr, respId |-> EmptyId, hasResp |-> FALSE,
     respObj |-> <<>>, respMeta |-> JArr,
     doc |-> EmptyDoc, respDoc |-> EmptyDoc, stat |-> StatInfo(FALSE, 0),
     req |-> NoRequest, parts |-> NoParts, viaHttp |-> FALSE, status |-> NoStatus,
     chObj |-> <<>>, chMeta |-> JArr,
     cands |-> <<>>, nObj0 |-> 0, nDoc0 |-> 0, pos0 |-> 0]

InFlight(p) == calls[p].pc \in {"gen", "fanout", "call", "lock", "locked"}

\* a caller may start a call in the lowest free slot while fewer than limit calls run
CanBegin(p) ==
    /\ ~crashed
    /\ ~InFlight(p)
    /\ Cardinality({q \in Procs : InFlight(q)}) < limit
    /\ \A q \in Procs : q < p => InFlight(q)

NewCall(op, id) ==
    [IdleCall EXCEPT !.op = op, !.id = id,
                     !.nObj0 = NumOfObects, !.nDoc0 = NumOfDocs,
                     !.objExisted = id \in DOMAIN objects,
                     !.docExisted = id \in DOMAIN docs,
                     !.pos0 = rander.pos]

\* variant: the group keeps the error of the branch that failed last
BranchFails_Last(c, e) == [c EXCEPT !.gerr = e, !.cancelled = TRUE]

\* errgroup: the first branch error is kept and cancels the group's context
BranchFails(c, e) ==
    [c EXCEPT !.gerr = IF c.gerr = NoErr THEN e ELSE c.gerr, !.cancelled = TRUE]

\* the object branch, resp. the metadata branch, returns the error e
ObjectBranchFails(c, e) == BranchFails([c EXCEPT !.ob = "err", !.oerr = e], e)

MetadataBranchFails(c, e) == BranchFails([c EXCEPT !.mb = "err", !.merr = e], e)

\* a write under id by anything ends the history of the last Index on id
Touch(id) == IF lastIndex.valid /\ lastIndex.id = id THEN NoIndex ELSE lastIndex

Init ==
    /\ objects = <<>>
    /\ docs = <<>>
    /\ rander = [scripted |-> FALSE, script |-> <<>>, pos |-> 0, eof |-> FALSE]
    /\ calls = [p \in Procs |-> IdleCall]
    /\ faults = FALSE
    /\ limit = 1
    /\ mu = FALSE
    /\ crashed = FALSE
    /\ lastIndex = NoIndex

(***************************************************************************)
(* Decisions of the code that the actions below apply.                     *)
(***************************************************************************)
\* variant: the collision check is missing
UUIDAccepted_Any(stats) == TRUE

\* generateUUID returns the candidate when Stat says it does not exist
UUIDAccepted(stats) == ~stats.Exists

\* variant: the value read is used without rendering it
Candidate_Raw(raw) == raw

\* the candidate generateUUID builds from the value it read
Candidate(raw) == Render(raw)

\* variant: Put keeps an object that is already stored
PutObject_IfAbsent(id, b) == IF id \in DOMAIN objects THEN objects ELSE Store(objects, id, b)

\* InMemoryObjectStore.Put, as called by Index's object branch
PutObject(id, b) == Store(objects, id, b)

\* variant: Upsert overwrites
UpsertDoc_Overwrite(incoming, found, stored) == incoming

\* variant: the stored document is the merge destination
UpsertDoc_StoredIsDst(incoming, found, stored) ==
    IF found THEN mergeDocs(stored, incoming) ELSE incoming

\* InMemoryDocumentStore.Upsert: the incoming document is the merge destination
UpsertDoc(incoming, found, stored) ==
    IF found THEN mergeDocs(incoming, stored) ELSE incoming

\* variant: the merge never panics
UpsertPanics_Never(incoming, found, stored) == FALSE

\* whether the mergeDocs of Upsert panics
UpsertPanics(incoming, found, stored) == found /\ MergePanics(incoming, stored)

\* variant: updateMetadata does not look at the Stat result
MetadataUpdatable_Always(stats) == TRUE

\* updateMetadata goes on to Upsert only when Stat says the document exists
MetadataUpdatable(stats) == stats.Exists

\* variant: Update does not check that the object exists
ObjectUpdatable_Always(id) == TRUE

\* InMemoryObjectStore.Update writes only when the object exists
ObjectUpdatable(id) == id \in DOMAIN objects

\* variant: the error of the group is dropped
WaitErr_Swallow(c) == NoErr

\* what g.Wait() returns
WaitErr(c) == c.gerr

\* the status the Index handler answers with once s.Index has returned err: the
\* error is returned to fiber, whose default error handler answers 500
StatusOf(c, err) ==
    IF ~c.viaHttp THEN NoStatus
    ELSE IF err = NoErr THEN StatusOK ELSE StatusInternalServerError

\* what the caller receives: (nil, err), or the response of the operation
Returned(c) ==
    IF WaitErr(c) # NoErr
    THEN [IdleCall EXCEPT !.op = c.op, !.pc = "returned", !.err = WaitErr(c),
                          !.cancelled = TRUE,
                          !.viaHttp = c.viaHttp, !.status = StatusOf(c, WaitErr(c)),
                          !.parts = c.parts]
    ELSE [IdleCall EXCEPT !.op = c.op, !.pc = "returned", !.hasResp = TRUE,
                          !.cancelled = TRUE,
                          !.viaHttp = c.viaHttp, !.status = StatusOf(c, NoErr),
                          !.parts = c.parts,
                          !.respId = IF c.op = "Index" THEN c.id ELSE EmptyId,
                          !.respObj = c.chObj, !.respMeta = c.chMeta]

\* variant: DeleteFromIndex deletes the object
ObjectsAfterDelete_Removes(id) == [i \in (DOMAIN objects) \ {id} |-> objects[i]]

\* the stores after DeleteFromIndex
ObjectsAfterDelete(id) == objects

DocsAfterDelete(id) == docs

\* variant: nested documents are written as empty objects
MetadataPayload_Shallow(doc) ==
    JObj([i \in 1..Len(MarshalDoc(doc)) |->
            IF MarshalDoc(doc)[i].v.t = "obj"
            THEN Member(MarshalDoc(doc)[i].k, JObj(<<>>))
            ELSE MarshalDoc(doc)[i]])

\* what the getMetadata branch sends for the stored document
MetadataPayload(doc) == marshalJSONToAny(doc)

\* variant: Get does not check that the object exists
GetObject_NoCheck(id) ==
    [err |-> NoErr, bytes |-> IF id \in DOMAIN objects THEN objects[id] ELSE <<>>]

\* InMemoryObjectStore.Get
GetObject(id) ==
    IF id \in DOMAIN objects THEN [err |-> NoErr, bytes |-> objects[id]]
    ELSE [err |-> ObjectDoesNotExistErr(id), bytes |-> <<>>]

\* InMemoryDocumentStore.Get
GetDocument(id) ==
    IF id \in DOMAIN docs THEN [err |-> NoErr, doc |-> docs[id]]
    ELSE [err |-> DocumentDoesNotExistErr(id), doc |-> EmptyDoc]

BranchDone(b) == b \in {"none", "ok", "err"}

Probe(raw, id, exists) == [raw |-> raw, id |-> id, exists |-> exists]

\* the values the next read of the randomness source can yield
ReadValues ==
    IF rander.eof THEN {}
    ELSE IF rander.scripted
    THEN IF rander.pos < Len(rander.script) THEN {rander.script[rander.pos + 1]} ELSE {}
    ELSE IF rander.pos < MaxRand THEN RawValues ELSE {}

\* whether the next read of the randomness source can fail
ReadCanFail == rander.eof \/ ~rander.scripted \/ rander.pos >= Len(rander.script)

(***************************************************************************)
(* Index: generateUUID, then Put and (with metadata) Upsert in an errgroup.*)
(***************************************************************************)
Index(p) ==
    /\ CanBegin(p)
    /\ \E hasMeta \in BOOLEAN :
         calls' = [calls EXCEPT ![p] =
                     [NewCall("Index", EmptyId) EXCEPT
                         !.pc = "gen", !.hasObj = TRUE, !.hasMeta = hasMeta]]
    /\ UNCHANGED <<objects, docs, rander, faults, limit, mu, crashed, lastIndex>>

\* variant: the metadata branch runs whether metadata was supplied or not
MetadataBranch_Always(hasMeta) == "ups_load"

\* if req.Metadata != nil, Index starts the metadata branch
MetadataBranch(hasMeta) == IF hasMeta THEN "ups_load" ELSE "none"

\* the object, resp. the metadata, of the request: any input for a direct call,
\* what ReadParts found in the body for a call made by the Index handler
ObjectChoices(c) == IF c.viaHttp THEN {c.object} ELSE ObjInputs

MetadataChoices(c) == IF c.viaHttp THEN {c.metadata} ELSE MetaInputs

\* one iteration of generateUUID's loop
generateUUID(p) ==
    LET c == calls[p] IN
    /\ ~crashed
    /\ c.pc = "gen"
    /\ \/ \* the source fails: uuid.Must panics with the error of the reader
          /\ ReadCanFail
          /\ calls' = [calls EXCEPT ![p] =
                         [IdleCall EXCEPT !.op = "Index", !.pc = "panicked", !.err = EOF,
                                          !.viaHttp = c.viaHttp, !.parts = c.parts]]
          /\ rander' = [rander EXCEPT !.eof = TRUE]
       \/ \E raw \in ReadValues, fail \in FaultChoices :
            LET id == Candidate(raw)
                stats == ObjectStat(id)
            IN  /\ rander' = [rander EXCEPT !.pos = @ + 1]
                /\ calls' = [calls EXCEPT ![p] =
                     IF fail
                     THEN [IdleCall EXCEPT !.op = "Index", !.pc = "returned",
                                           !.err = BackendFailure,
                                           !.viaHttp = c.viaHttp, !.parts = c.parts,
                                           !.status = StatusOf(c, BackendFailure)]
                     ELSE IF UUIDAccepted(stats)
                     THEN [c EXCEPT !.id = id, !.pc = "fanout", !.ob = "put",
                                    !.mb = MetadataBranch(c.hasMeta),
                                    !.cands = Append(@, Probe(raw, id, stats.Exists))]
                     ELSE [c EXCEPT !.cands = Append(@, Probe(raw, id, stats.Exists))]]
    /\ UNCHANGED <<objects, docs, faults, limit, mu, crashed, lastIndex>>

\* Index's object branch: objDB.Put(gctx, id, req.Object)
IndexPutObject(p) ==
    LET c == calls[p] IN
    /\ ~crashed
    /\ c.pc = "fanout" /\ c.ob = "put"
    /\ \E obj \in ObjectChoices(c), fail \in FaultChoices :
         IF fail
         THEN /\ calls' = [calls EXCEPT ![p] =
                             ObjectBranchFails([c EXCEPT !.object = obj], BackendFailure)]
              /\ UNCHANGED <<objects, lastIndex>>
         ELSE /\ objects' = PutObject(c.id, obj)
              /\ calls' = [calls EXCEPT ![p] = [c EXCEPT !.ob = "ok", !.object = obj]]
              /\ lastIndex' = Touch(c.id)
    /\ UNCHANGED <<docs, rander, faults, limit, mu, crashed>>

\* the metadata branch of Index and of updateMetadata: unmarshalAnyToJSON, then
\* the Load of InMemoryDocumentStore.Upsert
UpsertLoad(p) ==
    LET c == calls[p] IN
    /\ ~crashed
    /\ c.pc = "fanout" /\ c.mb = "ups_load"
    /\ \E json \in MetadataChoices(c) :
         IF ~UnmarshalOk(json)
         THEN calls' = [calls EXCEPT ![p] =
                          MetadataBranchFails([c EXCEPT !.metadata = json], UnmarshalErr)]
         ELSE \E fail \in FaultChoices :
                calls' = [calls EXCEPT ![p] =
                   IF fail
                   THEN MetadataBranchFails([c EXCEPT !.metadata = json], BackendFailure)
                   ELSE [c EXCEPT !.mb = "ups_store", !.metadata = json,
                                  !.loadedOk = c.id \in DOMAIN docs,
                                  !.loaded = IF c.id \in DOMAIN docs THEN docs[c.id]
                                             ELSE EmptyDoc]]
    /\ UNCHANGED <<objects, docs, rander, faults, limit, mu, crashed, lastIndex>>

\* the merge and the Store of InMemoryDocumentStore.Upsert
UpsertStore(p) ==
    LET c == calls[p]
        incoming == unmarshalAnyToJSON(c.metadata)
    IN
    /\ ~crashed
    /\ c.pc = "fanout" /\ c.mb = "ups_store"
    /\ IF UpsertPanics(incoming, c.loadedOk, c.loaded)
       THEN \* mergeDocs panics in the branch's goroutine
            /\ crashed' = TRUE
            /\ calls' = [calls EXCEPT ![p] = [c EXCEPT !.pc = "panicked"]]
            /\ UNCHANGED <<docs, lastIndex>>
       ELSE /\ docs' = Store(docs, c.id, UpsertDoc(incoming, c.loadedOk, c.loaded))
            /\ calls' = [calls EXCEPT ![p] = [c EXCEPT !.mb = "ok"]]
            /\ lastIndex' = Touch(c.id)
            /\ UNCHANGED crashed
    /\ UNCHANGED <<objects, rander, faults, limit, mu>>

\* both branches are over: g.Wait() is about to return
Joined(c) == c.pc = "fanout" /\ BranchDone(c.ob) /\ BranchDone(c.mb)

\* g.Wait() and the return of Index, GetFromIndex and UpdateIndex
Wait(p) ==
    LET c == calls[p] IN
    /\ ~crashed
    /\ Joined(c)
    /\ calls' = [calls EXCEPT ![p] = Returned(c)]
    /\ lastIndex' = IF c.op = "Index" /\ WaitErr(c) = NoErr
                    THEN [valid |-> TRUE, id |-> c.id, object |-> c.object,
                          hasMeta |-> c.hasMeta, metadata |-> c.metadata]
                    ELSE lastIndex
    /\ UNCHANGED <<objects, docs, rander, faults, limit, mu, crashed>>

\* the caller cancels the context of a call in progress (or its deadline
\* passes): the group's context, derived from it, is cancelled with it.  The
\* in-memory stores never look at their context, and g.Wait() returns only what
\* a branch returned.
CancelCtx(p) ==
    LET c == calls[p] IN
    /\ ~crashed
    /\ InFlight(p)
    /\ c.op \in FanOutOps
    /\ ~c.ctxDone
    /\ calls' = [calls EXCEPT ![p] = [c EXCEPT !.ctxDone = TRUE, !.cancelled = TRUE]]
    /\ UNCHANGED <<objects, docs, rander, faults, limit, mu, crashed, lastIndex>>

(***************************************************************************)
(* GetFromIndex: getObject and getMetadata in an errgroup.                 *)
(***************************************************************************)
GetFromIndex(p) ==
    /\ CanBegin(p)
    /\ \E id \in ReqIds :
         calls' = [calls EXCEPT ![p] =
                     [NewCall("GetFromIndex", id) EXCEPT
                         !.pc = "fanout", !.ob = "get", !.mb = "get"]]
    /\ UNCHANGED <<objects, docs, rander, faults, limit, mu, crashed, lastIndex>>

getObject(p) ==
    LET c == calls[p] IN
    /\ ~crashed
    /\ c.pc = "fanout" /\ c.ob = "get"
    /\ \E fail \in FaultChoices :
         calls' = [calls EXCEPT ![p] =
            IF fail THEN ObjectBranchFails(c, BackendFailure)
            ELSE IF GetObject(c.id).err # NoErr
            THEN ObjectBranchFails(c, GetObject(c.id).err)
            ELSE [c EXCEPT !.ob = "ok", !.chObj = GetObject(c.id).bytes]]
    /\ UNCHANGED <<objects, docs, rander, faults, limit, mu, crashed, lastIndex>>

getMetadata(p) ==
    LET c == calls[p] IN
    /\ ~crashed
    /\ c.pc = "fanout" /\ c.mb = "get"
    /\ \E fail \in FaultChoices :
         calls' = [calls EXCEPT ![p] =
            IF fail THEN MetadataBranchFails(c, BackendFailure)
            ELSE IF GetDocument(c.id).err # NoErr
            THEN MetadataBranchFails(c, GetDocument(c.id).err)
            ELSE [c EXCEPT !.mb = "ok", !.chMeta = MetadataPayload(GetDocument(c.id).doc)]]
    /\ UNCHANGED <<objects, docs, rander, faults, limit, mu, crashed, lastIndex>>

(***************************************************************************)
(* UpdateIndex: one branch per payload, updateObject and updateMetadata.   *)
(***************************************************************************)
UpdateIndex(p) ==
    /\ CanBegin(p)
    /\ \E id \in ReqIds, hasObj \in BOOLEAN, hasMeta \in BOOLEAN :
         calls' = [calls EXCEPT ![p] =
                     [NewCall("UpdateIndex", id) EXCEPT
                         !.pc = "fanout",
                         !.hasObj = hasObj, !.hasMeta = hasMeta,
                         !.ob = IF hasObj THEN "upd_load" ELSE "none",
                         !.mb = IF hasMeta THEN "stat" ELSE "none"]]
    /\ UNCHANGED <<objects, docs, rander, faults, limit, mu, crashed, lastIndex>>

\* the Load of InMemoryObjectStore.Update
updateObjectLoad(p) ==
    LET c == calls[p] IN
    /\ ~crashed
    /\ c.pc = "fanout" /\ c.ob = "upd_load"
    /\ \E fail \in FaultChoices :
         calls' = [calls EXCEPT ![p] =
            IF fail THEN ObjectBranchFails(c, BackendFailure)
            ELSE IF ~ObjectUpdatable(c.id)
            THEN ObjectBranchFails(c, ObjectDoesNotExistErr(c.id))
            ELSE [c EXCEPT !.ob = "upd_store"]]
    /\ UNCHANGED <<objects, docs, rander, faults, limit, mu, crashed, lastIndex>>

\* the Store of InMemoryObjectStore.Update
updateObjectStore(p) ==
    LET c == calls[p] IN
    /\ ~crashed
    /\ c.pc = "fanout" /\ c.ob = "upd_store"
    /\ \E obj \in ObjInputs :
         /\ objects' = Store(objects, c.id, obj)
         /\ calls' = [calls EXCEPT ![p] = [c EXCEPT !.ob = "ok", !.object = obj]]
    /\ lastIndex' = Touch(c.id)
    /\ UNCHANGED <<docs, rander, faults, limit, mu, crashed>>

\* updateMetadata up to its Upsert: the Stat probe of the document store
updateMetadata(p) ==
    LET c == calls[p] IN
    /\ ~crashed
    /\ c.pc = "fanout" /\ c.mb = "stat"
    /\ \E fail \in FaultChoices :
         calls' = [calls EXCEPT ![p] =
            IF fail THEN MetadataBranchFails(c, BackendFailure)
            ELSE IF ~MetadataUpdatable(DocumentStat(c.id))
            THEN MetadataBranchFails(c, DocumentDoesNotExistErr(c.id))
            ELSE [c EXCEPT !.mb = "ups_load"]]
    /\ UNCHANGED <<objects, docs, rander, faults, limit, mu, crashed, lastIndex>>

(***************************************************************************)
(* DeleteFromIndex returns an empty response and touches nothing.          *)
(***************************************************************************)
DeleteFromIndex(p) ==
    /\ CanBegin(p)
    /\ \E id \in ReqIds :
         /\ calls' = [calls EXCEPT ![p] =
                        [IdleCall EXCEPT !.op = "DeleteFromIndex", !.id = id,
                                         !.objExisted = id \in DOMAIN objects,
                                         !.docExisted = id \in DOMAIN docs,
                                         !.pc = "returned", !.hasResp = TRUE]]
         /\ objects' = ObjectsAfterDelete(id)
         /\ docs' = DocsAfterDelete(id)
    /\ UNCHANGED <<rander, faults, limit, mu, crashed, lastIndex>>

Next ==
    \E p \in Procs :
        \/ Index(p)
        \/ generateUUID(p)
        \/ IndexPutObject(p)
        \/ UpsertLoad(p)
        \/ UpsertStore(p)
        \/ Wait(p)
        \/ CancelCtx(p)
        \/ GetFromIndex(p)
        \/ getObject(p)
        \/ getMetadata(p)
        \/ UpdateIndex(p)
        \/ updateObjectLoad(p)
        \/ updateObjectStore(p)
        \/ updateMetadata(p)
        \/ DeleteFromIndex(p)

\* the in-memory stores, one call at a time
Spec == Init /\ [][Next]_vars

\* stores whose calls can fail (the mocked stores), one call at a time
InitFaulty ==
    /\ objects = <<>>
    /\ docs = <<>>
    /\ rander = [scripted |-> FALSE, script |-> <<>>, pos |-> 0, eof |-> FALSE]
    /\ calls = [p \in Procs |-> IdleCall]
    /\ faults = TRUE
    /\ limit = 1
    /\ mu = FALSE
    /\ crashed = FALSE
    /\ lastIndex = NoIndex

SpecFaulty == InitFaulty /\ [][Next]_vars

\* the scripted source of TestIndex: the same value twice, then a different one
Scripts == {<<s, s, t>> : s \in RawValues, t \in RawValues} \ {<<s, s, s>> : s \in RawValues}

InitScripted ==
    /\ objects = <<>>
    /\ docs = <<>>
    /\ rander \in {[scripted |-> TRUE, script |-> sc, pos |-> 0, eof |-> FALSE] : sc \in Scripts}
    /\ calls = [p \in Procs |-> IdleCall]
    /\ faults = FALSE
    /\ limit = 1
    /\ mu = FALSE
    /\ crashed = FALSE
    /\ lastIndex = NoIndex

SpecScripted == InitScripted /\ [][Next]_vars

\* two Index calls at once on the in-memory stores
InitRace ==
    /\ objects = <<>>
    /\ docs = <<>>
    /\ rander = [scripted |-> FALSE, script |-> <<>>, pos |-> 0, eof |-> FALSE]
    /\ calls = [p \in Procs |-> IdleCall]
    /\ faults = FALSE
    /\ limit = 2
    /\ mu = FALSE
    /\ crashed = FALSE
    /\ lastIndex = NoIndex

(***************************************************************************)
(* Calls made on the stores directly, as the storage test suites make them.*)
(* Stat, Get and Put are one operation of the sync.Map; Update, Delete and *)
(* Upsert are a Load followed by a Store or a Delete.                      *)
(***************************************************************************)
\* ids of direct store calls: the "" of the test suites and a generated id
StoreIds == {EmptyId, Render(0)}

D1(k, v) == [i \in {k} |-> v]

D2(k1, v1, k2, v2) == [i \in {k1, k2} |-> IF i = k1 THEN v1 ELSE v2]

\* documents passed to Upsert
DocInputs ==
    { D1("a", Num(1)), D1("b", Num(2)), D1("a", Num(5)),
      D1("a", Sub(D1("x", Num(1)))), D1("a", Sub(D1("y", Num(2)))) }

StoreReturn(op, id) == [IdleCall EXCEPT !.op = op, !.id = id, !.pc = "returned"]

\* sync.Map.Delete
Remove(m, id) == [i \in (DOMAIN m) \ {id} |-> m[i]]

ObjectStoreStat(p) ==
    /\ CanBegin(p)
    /\ \E id \in StoreIds :
         calls' = [calls EXCEPT ![p] =
                     [StoreReturn("ObjectStore.Stat", id) EXCEPT
                         !.stat = ObjectStat(id), !.hasResp = TRUE]]
    /\ UNCHANGED <<objects, docs, rander, faults, limit, mu, crashed, lastIndex>>

ObjectStoreGet(p) ==
    /\ CanBegin(p)
    /\ \E id \in StoreIds :
         calls' = [calls EXCEPT ![p] =
                     [StoreReturn("ObjectStore.Get", id) EXCEPT
                         !.err = GetObject(id).err,
                         !.hasResp = (GetObject(id).err = NoErr),
                         !.respObj = GetObject(id).bytes]]
    /\ UNCHANGED <<objects, docs, rander, faults, limit, mu, crashed, lastIndex>>

ObjectStorePut(p) ==
    /\ CanBegin(p)
    /\ \E id \in StoreIds, b \in ObjInputs :
         /\ objects' = PutObject(id, b)
         /\ calls' = [calls EXCEPT ![p] =
                        [StoreReturn("ObjectStore.Put", id) EXCEPT
                            !.object = b, !.hasResp = TRUE,
                            !.objExisted = id \in DOMAIN objects]]
    /\ UNCHANGED <<docs, rander, faults, limit, mu, crashed, lastIndex>>

\* Update up to and including its Load
ObjectStoreUpdate(p) ==
    /\ CanBegin(p)
    /\ \E id \in StoreIds, b \in ObjInputs :
         calls' = [calls EXCEPT ![p] =
            IF ~ObjectUpdatable(id)
            THEN [StoreReturn("ObjectStore.Update", id) EXCEPT
                     !.object = b, !.err = ObjectDoesNotExistErr(id)]
            ELSE [StoreReturn("ObjectStore.Update", id) EXCEPT
                     !.object = b, !.pc = "call"]]
    /\ UNCHANGED <<objects, docs, rander, faults, limit, mu, crashed, lastIndex>>

\* the Store of Update
ObjectStoreUpdateStore(p) ==
    LET c == calls[p] IN
    /\ ~crashed
    /\ c.pc = "call" /\ c.op = "ObjectStore.Update"
    /\ objects' = Store(objects, c.id, c.object)
    /\ calls' = [calls EXCEPT ![p] = [c EXCEPT !.pc = "returned", !.hasResp = TRUE]]
    /\ UNCHANGED <<docs, rander, faults, limit, mu, crashed, lastIndex>>

\* Delete up to and including its Load
ObjectStoreDelete(p) ==
    /\ CanBegin(p)
    /\ \E id \in StoreIds :
         calls' = [calls EXCEPT ![p] =
            IF id \notin DOMAIN objects
            THEN [StoreReturn("ObjectStore.Delete", id) EXCEPT
                     !.err = ObjectDoesNotExistErr(id)]
            ELSE [StoreReturn("ObjectStore.Delete", id) EXCEPT !.pc = "call"]]
    /\ UNCHANGED <<objects, docs, rander, faults, limit, mu, crashed, lastIndex>>

\* the sync.Map.Delete of Delete
ObjectStoreDeleteStore(p) ==
    LET c == calls[p] IN
    /\ ~crashed
    /\ c.pc = "call" /\ c.op = "ObjectStore.Delete"
    /\ objects' = Remove(objects, c.id)
    /\ calls' = [calls EXCEPT ![p] = [c EXCEPT !.pc = "returned", !.hasResp = TRUE]]
    /\ UNCHANGED <<docs, rander, faults, limit, mu, crashed, lastIndex>>

DocumentStoreStat(p) ==
    /\ CanBegin(p)
    /\ \E id \in StoreIds :
         calls' = [calls EXCEPT ![p] =
                     [StoreReturn("DocumentStore.Stat", id) EXCEPT
                         !.stat = DocumentStat(id), !.hasResp = TRUE]]
    /\ UNCHANGED <<objects, docs, rander, faults, limit, mu, crashed, lastIndex>>

DocumentStoreGet(p) ==
    /\ CanBegin(p)
    /\ \E id \in StoreIds :
         calls' = [calls EXCEPT ![p] =
                     [StoreReturn("DocumentStore.Get", id) EXCEPT
                         !.err = GetDocument(id).err,
                         !.hasResp = (GetDocument(id).err = NoErr),
                         !.respDoc = GetDocument(id).doc]]
    /\ UNCHANGED <<objects, docs, rander, faults, limit, mu, crashed, lastIndex>>

\* Upsert up to and including its Load
DocumentStoreUpsert(p) ==
    /\ CanBegin(p)
    /\ \E id \in StoreIds, doc \in DocInputs :
         calls' = [calls EXCEPT ![p] =
                     [StoreReturn("DocumentStore.Upsert", id) EXCEPT
                         !.pc = "call", !.doc = doc,
                         !.loadedOk = id \in DOMAIN docs,
                         !.loaded = IF id \in DOMAIN docs THEN docs[id] ELSE EmptyDoc]]
    /\ UNCHANGED <<objects, docs, rander, faults, limit, mu, crashed, lastIndex>>

\* the mergeDocs and the Store of Upsert
DocumentStoreUpsertStore(p) ==
    LET c == calls[p] IN
    /\ ~crashed
    /\ c.pc = "call" /\ c.op = "DocumentStore.Upsert"
    /\ IF UpsertPanics(c.doc, c.loadedOk, c.loaded)
       THEN /\ crashed' = TRUE
            /\ calls' = [calls EXCEPT ![p] = [c EXCEPT !.pc = "panicked"]]
            /\ UNCHANGED docs
       ELSE /\ docs' = Store(docs, c.id, UpsertDoc(c.doc, c.loadedOk, c.loaded))
            /\ calls' = [calls EXCEPT ![p] =
                           [StoreReturn(c.op, c.id) EXCEPT !.doc = c.doc, !.hasResp = TRUE,
                                                           !.loadedOk = c.loadedOk,
                                                           !.loaded = c.loaded]]
            /\ UNCHANGED crashed
    /\ UNCHANGED <<objects, rander, faults, limit, mu, lastIndex>>

\* Delete up to and including its Load
DocumentStoreDelete(p) ==
    /\ CanBegin(p)
    /\ \E id \in StoreIds :
         calls' = [calls EXCEPT ![p] =
            IF id \notin DOMAIN docs
            THEN [StoreReturn("DocumentStore.Delete", id) EXCEPT
                     !.err = DocumentDoesNotExistErr(id)]
            ELSE [StoreReturn("DocumentStore.Delete", id) EXCEPT !.pc = "call"]]
    /\ UNCHANGED <<objects, docs, rander, faults, limit, mu, crashed, lastIndex>>

\* the sync.Map.Delete of Delete
DocumentStoreDeleteStore(p) ==
    LET c == calls[p] IN
    /\ ~crashed
    /\ c.pc = "call" /\ c.op = "DocumentStore.Delete"
    /\ docs' = Remove(docs, c.id)
    /\ calls' = [calls EXCEPT ![p] = [c EXCEPT !.pc = "returned", !.hasResp = TRUE]]
    /\ UNCHANGED <<objects, rander, faults, limit, mu, crashed, lastIndex>>

NextObjectStore ==
    \E p \in Procs :
        \/ ObjectStoreStat(p)
        \/ ObjectStoreGet(p)
        \/ ObjectStorePut(p)
        \/ ObjectStoreUpdate(p)
        \/ ObjectStoreUpdateStore(p)
        \/ ObjectStoreDelete(p)
        \/ ObjectStoreDeleteStore(p)

NextDocumentStore ==
    \E p \in Procs :
        \/ DocumentStoreStat(p)
        \/ DocumentStoreGet(p)
        \/ DocumentStoreUpsert(p)
        \/ DocumentStoreUpsertStore(p)
        \/ DocumentStoreDelete(p)
        \/ DocumentStoreDeleteStore(p)

\* one caller at a time on the two in-memory stores
SpecStores == Init /\ [][NextObjectStore \/ NextDocumentStore]_vars

NextUpsert ==
    \E p \in Procs :
        \/ DocumentStoreUpsert(p)
        \/ DocumentStoreUpsertStore(p)

\* two Upserts at once on the in-memory document store
SpecUpserts == InitRace /\ [][NextUpsert]_vars

NextIndex ==
    \E p \in Procs :
        \/ Index(p)
        \/ generateUUID(p)
        \/ IndexPutObject(p)
        \/ UpsertLoad(p)
        \/ UpsertStore(p)
        \/ Wait(p)

SpecRace == InitRace /\ [][NextIndex]_vars

(***************************************************************************)
(* mergeDocs on its own: every pair of documents of MergeInputs.           *)
(***************************************************************************)
MergeInputs ==
    DocInputs \cup
    { D1("a", Sub(D1("x", Sub(D1("y", Num(1)))))),
      D1("a", Sub(D1("x", Sub(D1("b", Num(2)))))),
      D2("a", Sub(D1("x", Num(1))), "b", Num(2)),
      D2("a", Sub(D2("x", Num(1), "y", Sub(D1("a", Num(1))))), "b", Sub(D1("x", Num(5)))),
      D2("a", Sub(D1("y", Sub(D1("b", Num(2))))), "b", Sub(D1("y", Num(2)))),
      EmptyDoc }

InitMerge ==
    /\ objects = <<>>
    /\ docs = <<>>
    /\ rander = [scripted |-> FALSE, script |-> <<>>, pos |-> 0, eof |-> FALSE]
    /\ \E dst \in MergeInputs, src \in MergeInputs :
         calls = [p \in Procs |->
                    IF p = 1
                    THEN [IdleCall EXCEPT !.op = "mergeDocs", !.pc = "call",
                                          !.doc = dst, !.loaded = src, !.loadedOk = TRUE]
                    ELSE IdleCall]
    /\ faults = FALSE
    /\ limit = 1
    /\ mu = FALSE
    /\ crashed = FALSE
    /\ lastIndex = NoIndex

\* mergeDocs(dst, src) with dst = doc and src = loaded
MergeDocsCall(p) ==
    LET c == calls[p] IN
    /\ ~crashed
    /\ c.pc = "call" /\ c.op = "mergeDocs"
    /\ IF MergePanics(c.doc, c.loaded)
       THEN /\ crashed' = TRUE
            /\ calls' = [calls EXCEPT ![p] = [c EXCEPT !.pc = "panicked"]]
       ELSE /\ calls' = [calls EXCEPT ![p] =
                           [c EXCEPT !.pc = "returned", !.hasResp = TRUE,
                                     !.respDoc = mergeDocs(c.doc, c.loaded)]]
            /\ UNCHANGED crashed
    /\ UNCHANGED <<objects, docs, rander, faults, limit, mu, lastIndex>>

NextMerge == \E p \in Procs : MergeDocsCall(p)

SpecMerge == InitMerge /\ [][NextMerge]_vars

(***************************************************************************)
(* Update and Delete of the sync.Map object store, two at once, on a store *)
(* that holds an object under every id.                                    *)
(***************************************************************************)
InitStored ==
    /\ objects = [id \in StoreIds |-> <<1>>]
    /\ docs = <<>>
    /\ rander = [scripted |-> FALSE, script |-> <<>>, pos |-> 0, eof |-> FALSE]
    /\ calls = [p \in Procs |-> IdleCall]
    /\ faults = FALSE
    /\ limit = 2
    /\ mu = FALSE
    /\ crashed = FALSE
    /\ lastIndex = NoIndex

NextUpdateDelete ==
    \E p \in Procs :
        \/ ObjectStoreUpdate(p)
        \/ ObjectStoreUpdateStore(p)
        \/ ObjectStoreDelete(p)
        \/ ObjectStoreDeleteStore(p)

SpecUpdateDelete == InitStored /\ [][NextUpdateDelete]_vars

(***************************************************************************)
(* UpdateIndex while another goroutine deletes from the document store, on *)
(* stores that hold an indexed object with its document.                   *)
(***************************************************************************)
InitIndexed ==
    /\ objects = [id \in {Render(0)} |-> <<1>>]
    /\ docs = [id \in {Render(0)} |-> D1("a", Num(1))]
    /\ rander = [scripted |-> FALSE, script |-> <<>>, pos |-> 0, eof |-> FALSE]
    /\ calls = [p \in Procs |-> IdleCall]
    /\ faults = FALSE
    /\ limit = 2
    /\ mu = FALSE
    /\ crashed = FALSE
    /\ lastIndex = NoIndex

NextUpdateRace ==
    \E p \in Procs :
        \/ UpdateIndex(p)
        \/ updateObjectLoad(p)
        \/ updateObjectStore(p)
        \/ updateMetadata(p)
        \/ UpsertLoad(p)
        \/ UpsertStore(p)
        \/ Wait(p)
        \/ DocumentStoreDelete(p)
        \/ DocumentStoreDeleteStore(p)

SpecUpdateRace == InitIndexed /\ [][NextUpdateRace]_vars

(***************************************************************************)
(* The mutex-guarded InMemoryObjectStore: every method locks mu, works on  *)
(* the map and unlocks.  A call waits at "lock" until mu is free.          *)
(***************************************************************************)
MutexOps ==
    {"MutexObjectStore.Stat", "MutexObjectStore.Get", "MutexObjectStore.Put",
     "MutexObjectStore.Update"}

\* a method is called: it is about to s.mu.Lock()
MutexCall(p) ==
    /\ CanBegin(p)
    /\ \E op \in MutexOps, id \in StoreIds :
         calls' = [calls EXCEPT ![p] = [StoreReturn(op, id) EXCEPT !.pc = "lock"]]
    /\ UNCHANGED <<objects, docs, rander, faults, limit, mu, crashed, lastIndex>>

\* s.mu.Lock()
MutexLock(p) ==
    LET c == calls[p] IN
    /\ c.pc = "lock"
    /\ ~mu
    /\ mu' = TRUE
    /\ calls' = [calls EXCEPT ![p] = [c EXCEPT !.pc = "locked"]]
    /\ UNCHANGED <<objects, docs, rander, faults, limit, crashed, lastIndex>>

MutexStat(p) ==
    LET c == calls[p] IN
    /\ c.pc = "locked" /\ c.op = "MutexObjectStore.Stat"
    /\ mu' = FALSE
    /\ calls' = [calls EXCEPT ![p] =
                   [c EXCEPT !.pc = "returned", !.stat = ObjectStat(c.id), !.hasResp = TRUE]]
    /\ UNCHANGED <<objects, docs, rander, faults, limit, crashed, lastIndex>>

MutexGet(p) ==
    LET c == calls[p] IN
    /\ c.pc = "locked" /\ c.op = "MutexObjectStore.Get"
    /\ mu' = FALSE
    /\ calls' = [calls EXCEPT ![p] =
                   IF c.id \in DOMAIN objects
                   THEN [c EXCEPT !.pc = "returned", !.respObj = objects[c.id],
                                  !.hasResp = TRUE]
                   ELSE [c EXCEPT !.pc = "returned", !.err = ObjectDoesNotExistErr(c.id)]]
    /\ UNCHANGED <<objects, docs, rander, faults, limit, crashed, lastIndex>>

MutexPut(p) ==
    LET c == calls[p] IN
    /\ c.pc = "locked" /\ c.op = "MutexObjectStore.Put"
    /\ \E b \in ObjInputs :
         /\ objects' = Store(objects, c.id, b)
         /\ calls' = [calls EXCEPT ![p] =
                        [c EXCEPT !.pc = "returned", !.object = b, !.hasResp = TRUE]]
    /\ mu' = FALSE
    /\ UNCHANGED <<docs, rander, faults, limit, crashed, lastIndex>>

\* Update returns ObjectDoesNotExistErr without s.mu.Unlock()
MutexUpdate(p) ==
    LET c == calls[p] IN
    /\ c.pc = "locked" /\ c.op = "MutexObjectStore.Update"
    /\ \E b \in ObjInputs :
         IF c.id \notin DOMAIN objects
         THEN /\ calls' = [calls EXCEPT ![p] =
                             [c EXCEPT !.pc = "returned", !.object = b,
                                       !.err = ObjectDoesNotExistErr(c.id)]]
              /\ UNCHANGED <<objects, mu>>
         ELSE /\ objects' = Store(objects, c.id, b)
              /\ calls' = [calls EXCEPT ![p] =
                             [c EXCEPT !.pc = "returned", !.object = b, !.hasResp = TRUE]]
              /\ mu' = FALSE
    /\ UNCHANGED <<docs, rander, faults, limit, crashed, lastIndex>>

NextMutex ==
    \E p \in Procs :
        \/ MutexCall(p)
        \/ MutexLock(p)
        \/ MutexStat(p)
        \/ MutexGet(p)
        \/ MutexPut(p)
        \/ MutexUpdate(p)

\* a goroutine that holds the mutex goes on, and sync.Mutex lets no waiter
\* starve while the mutex keeps being released
SpecMutex ==
    /\ InitRace
    /\ [][NextMutex]_vars
    /\ \A p \in Procs :
          /\ SF_vars(MutexLock(p))
          /\ WF_vars(MutexStat(p) \/ MutexGet(p) \/ MutexPut(p) \/ MutexUpdate(p))

(***************************************************************************)
(* The Index handler: ReadParts on the request, then Service.Index.        *)
(***************************************************************************)
\* the status for an error of ReadParts: 400 for a ContentTypeError, else 500
ReadErrStatus(err) ==
    IF err.kind = "ContentTypeError" THEN StatusBadRequest ELSE StatusInternalServerError

\* the APIError bodies of the handler's answers: the message of ReadParts'
\* error, and ErrMissingObjectPart
APIError(err) == Err(err.kind, EmptyId)

ErrMissingObjectPart == Err("must provide object part in form data", EmptyId)

\* variant: a request without an object part is handed to Index
ObjectMissing_Never(parts) == FALSE

\* object == nil
ObjectMissing(parts) == ~parts.hasObj

\* what ReadParts makes of the requests: c.Body() under c.Get("Content-Type")
HttpPartsInputs ==
    {ReadParts(ct, body) : ct \in ContentTypeInputs, body \in HttpBodyInputs}

\* the handler up to its call of s.Index: it answers itself when ReadParts
\* fails or found no object part
IndexHandler(p) ==
    /\ CanBegin(p)
    /\ \E parts \in HttpPartsInputs :
         LET answer(status, body) == [NewCall("IndexHandler", EmptyId) EXCEPT
                                         !.pc = "returned", !.viaHttp = TRUE,
                                         !.parts = parts, !.status = status,
                                         !.err = body]
         IN  calls' = [calls EXCEPT ![p] =
                 IF parts.err # NoPartErr
                 THEN answer(ReadErrStatus(parts.err), APIError(parts.err))
                 ELSE IF ObjectMissing(parts)
                 THEN answer(StatusBadRequest, ErrMissingObjectPart)
                 ELSE [NewCall("Index", EmptyId) EXCEPT
                          !.pc = "gen", !.viaHttp = TRUE, !.parts = parts,
                          !.hasObj = TRUE, !.object = parts.object,
                          !.hasMeta = parts.hasMeta,
                          !.metadata = IF parts.hasMeta THEN parts.metadata ELSE JArr]]
    /\ UNCHANGED <<objects, docs, rander, faults, limit, mu, crashed, lastIndex>>

NextHttp ==
    \E p \in Procs :
        \/ IndexHandler(p)
        \/ generateUUID(p)
        \/ IndexPutObject(p)
        \/ UpsertLoad(p)
        \/ UpsertStore(p)
        \/ Wait(p)

SpecHttp == Init /\ [][NextHttp]_vars

(***************************************************************************)
(* ReadParts on its own: every content type and body of the inputs.        *)
(***************************************************************************)
InitReadParts ==
    /\ objects = <<>>
    /\ docs = <<>>
    /\ rander = [scripted |-> FALSE, script |-> <<>>, pos |-> 0, eof |-> FALSE]
    /\ \E ct \in ContentTypeInputs, body \in BodyInputs :
         calls = [p \in Procs |->
                    IF p = 1
                    THEN [IdleCall EXCEPT !.op = "ReadParts", !.pc = "call",
                                          !.req = [contentType |-> ct, body |-> body]]
                    ELSE IdleCall]
    /\ faults = FALSE
    /\ limit = 1
    /\ mu = FALSE
    /\ crashed = FALSE
    /\ lastIndex = NoIndex

ReadPartsCall(p) ==
    LET c == calls[p] IN
    /\ ~crashed
    /\ c.pc = "call" /\ c.op = "ReadParts"
    /\ calls' = [calls EXCEPT ![p] =
                   [c EXCEPT !.pc = "returned",
                             !.parts = ReadParts(c.req.contentType, c.req.body)]]
    /\ UNCHANGED <<objects, docs, rander, faults, limit, mu, crashed, lastIndex>>

NextReadParts == \E p \in Procs : ReadPartsCall(p)

SpecReadParts == InitReadParts /\ [][NextReadParts]_vars

(***************************************************************************)
(* The claims.  A call that has Joined returns Returned(c) in its next     *)
(* step, which changes no store.                                           *)
(***************************************************************************)

\* C1: Index called with an object and (well-formed) metadata, no store call
\* failing, returns a non-empty identifier; on return the object store holds
\* the supplied bytes and the document store the supplied metadata under it,
\* and each store holds exactly one entry more than when the call began.
C1_IndexStoresBoth ==
    \A p \in Procs :
        LET c == calls[p]
            r == Returned(c)
        IN  (c.op = "Index" /\ Joined(c) /\ c.hasMeta /\ UnmarshalOk(c.metadata)) =>
                /\ r.err = NoErr /\ r.hasResp
                /\ r.respId # EmptyId
                /\ r.respId \in DOMAIN objects
                /\ objects[r.respId] = c.object
                /\ r.respId \in DOMAIN docs
                /\ docs[r.respId] = unmarshalAnyToJSON(c.metadata)
                /\ NumOfObects = c.nObj0 + 1
                /\ NumOfDocs = c.nDoc0 + 1

C1_Witness ==
    \E p \in Procs :
        /\ calls[p].op = "Index" /\ Joined(calls[p])
        /\ calls[p].hasMeta /\ UnmarshalOk(calls[p].metadata)
        /\ calls[p].nObj0 = 1

\* C2: generateUUID returns the rendering of the last value it read, Stat
\* reported that candidate absent and every earlier candidate existing, it
\* probed each value it read once, and nothing is read after the accepted value.
C2_FirstAbsentCandidate ==
    \A p \in Procs :
        LET c == calls[p]
            n == Len(c.cands)
        IN  (c.op = "Index" /\ c.pc = "fanout") =>
                /\ n >= 1
                /\ c.id = Render(c.cands[n].raw)
                /\ c.id = c.cands[n].id
                /\ ~c.cands[n].exists
                /\ \A i \in 1..(n - 1) : c.cands[i].exists /\ c.cands[i].id = Render(c.cands[i].raw)
                /\ rander.pos = c.pos0 + n
                /\ (c.ob = "put" => c.id \notin DOMAIN objects)

C2_Witness ==
    \E p \in Procs :
        /\ calls[p].op = "Index" /\ calls[p].pc = "fanout"
        /\ Len(calls[p].cands) = 2
        /\ calls[p].cands[1].exists

ScriptedPattern ==
    /\ rander.scripted
    /\ Len(rander.script) = 3
    /\ rander.script[1] = rander.script[2]
    /\ rander.script[3] # rander.script[1]

\* C3 as stated: with a source scripted to yield the same value twice and then
\* a distinct third one, the allocation of Index retries exactly once and
\* returns the rendering of the third value.
C3_Original ==
    \A p \in Procs :
        LET c == calls[p]
        IN  (ScriptedPattern /\ c.op = "Index" /\ c.pc = "fanout") =>
                /\ Len(c.cands) = 2
                /\ c.id = Render(rander.script[3])

\* C3 amended: with that source and in-memory stores that start empty, the
\* first Index call does not retry and returns the rendering of the first
\* value; the Index call after it retries exactly once and returns the
\* rendering of the third value, when that rendering differs from the first's.
C3_SecondCallRetriesOnce ==
    \A p \in Procs :
        LET c == calls[p]
        IN  (ScriptedPattern /\ c.op = "Index" /\ c.pc = "fanout") =>
                /\ c.pos0 = 0 =>
                      /\ Len(c.cands) = 1
                      /\ c.id = Render(rander.script[1])
                /\ (c.pos0 = 1 /\ Render(rander.script[3]) # Render(rander.script[1])) =>
                      /\ Len(c.cands) = 2
                      /\ c.cands[1].exists
                      /\ c.id = Render(rander.script[3])
                /\ c.pos0 \in {0, 1}

C3_Witness ==
    \E p \in Procs :
        /\ ScriptedPattern
        /\ calls[p].op = "Index" /\ calls[p].pc = "fanout"
        /\ calls[p].pos0 = 1
        /\ Len(calls[p].cands) = 2

\* C4 as stated: when the randomness source fails, Index returns the
\* source's error to its caller as an error result.
C4_RandFailureIsReturned ==
    \A p \in Procs :
        (calls[p].op = "Index" /\ calls[p].err = EOF) => calls[p].pc = "returned"

NoBackendFailure(c) == c.oerr # BackendFailure /\ c.merr # BackendFailure

C7_GetReturnsIndexed ==
    \A p \in Procs :
        LET c == calls[p]
            r == Returned(c)
        IN  (/\ c.op = "GetFromIndex" /\ Joined(c)
             /\ lastIndex.valid /\ lastIndex.hasMeta /\ lastIndex.id = c.id) =>
                /\ r.hasResp /\ r.err = NoErr
                /\ r.respObj = lastIndex.object
                /\ UnmarshalOk(r.respMeta)
                /\ unmarshalAnyToJSON(r.respMeta) = unmarshalAnyToJSON(lastIndex.metadata)

C7_Witness ==
    \E p \in Procs :
        /\ calls[p].op = "GetFromIndex" /\ Joined(calls[p])
        /\ lastIndex.valid /\ lastIndex.hasMeta /\ lastIndex.id = calls[p].id
        /\ Returned(calls[p]).respMeta # lastIndex.metadata

\* C8 as stated: after DeleteFromIndex(id) returned success for an id whose
\* object and document both existed, neither store holds anything under id.
C8_DeleteRemovesBoth ==
    \A p \in Procs :
        LET c == calls[p]
        IN  (/\ c.op = "DeleteFromIndex" /\ c.pc = "returned" /\ c.hasResp
             /\ c.objExisted /\ c.docExisted) =>
                (c.id \notin DOMAIN objects /\ c.id \notin DOMAIN docs)

C10_Original ==
    \A p \in Procs :
        LET c == calls[p]
        IN  (c.op = "UpdateIndex" /\ Joined(c) /\ c.hasMeta /\ ~c.docExisted) =>
                /\ Returned(c).err = DocumentDoesNotExistErr(c.id)
                /\ c.id \notin DOMAIN docs

\* C10 amended: UpdateIndex with a metadata payload on an id without a document
\* fails and creates no document; its metadata branch fails with
\* DocumentDoesNotExistErr{id}, which the call returns, unless an object payload
\* was given too, the object is absent as well and the object branch failed
\* first: then the call returns ObjectDoesNotExistErr{id}.  The Upsert is
\* issued only after Stat reported the document as existing.
C10_MetadataNeedsDocument ==
    \A p \in Procs :
        LET c == calls[p]
            r == Returned(c)
        IN  /\ (c.op = "UpdateIndex" /\ Joined(c) /\ c.hasMeta /\ ~c.docExisted) =>
                /\ ~r.hasResp
                /\ c.merr = DocumentDoesNotExistErr(c.id)
                /\ \/ r.err = DocumentDoesNotExistErr(c.id)
                   \/ /\ c.hasObj /\ ~c.objExisted
                      /\ r.err = ObjectDoesNotExistErr(c.id)
                /\ c.id \notin DOMAIN docs
            /\ (c.op = "UpdateIndex" /\ c.pc = "fanout" /\ c.mb \in {"ups_load", "ups_store", "ok"}) =>
                c.docExisted

C10_Witness ==
    \E p \in Procs :
        /\ calls[p].op = "UpdateIndex" /\ Joined(calls[p])
        /\ calls[p].hasMeta /\ ~calls[p].docExisted
        /\ calls[p].objExisted /\ calls[p].hasObj
        /\ calls[p].ob = "ok"

\* C11 as stated: UpdateIndex on an identifier present in neither store
\* returns an error whatever payloads it is given (object, metadata, both or
\* none) and creates nothing in either store.
C11_UpdateOfUnknownIdFails ==
    \A p \in Procs :
        LET c == calls[p]
        IN  (c.op = "UpdateIndex" /\ Joined(c) /\ ~c.objExisted /\ ~c.docExisted) =>
                /\ Returned(c).err # NoErr
                /\ ~Returned(c).hasResp
                /\ c.id \notin DOMAIN objects
                /\ c.id \notin DOMAIN docs

\* C12: Index, GetFromIndex and UpdateIndex return success exactly when no
\* branch failed; the error they return is the error of the branch that failed
\* first: the step in which the first branch fails records its error and
\* cancels the group's context, and a later failure does not replace it.
C12_FirstErrorWins ==
    [][\A p \in Procs :
          LET c == calls[p]
              d == calls'[p]
          IN  /\ (c.op \in FanOutOps /\ c.pc = "fanout") =>
                    (c.gerr = NoErr <=> (c.ob # "err" /\ c.mb # "err"))
              /\ (c.op \in FanOutOps /\ c.pc = "fanout" /\ d.pc = "fanout") =>
                    /\ (c.ob # "err" /\ d.ob = "err") =>
                          /\ d.oerr # NoErr
                          /\ d.cancelled
                          /\ d.gerr = IF c.gerr = NoErr THEN d.oerr ELSE c.gerr
                    /\ (c.mb # "err" /\ d.mb = "err") =>
                          /\ d.merr # NoErr
                          /\ d.cancelled
                          /\ d.gerr = IF c.gerr = NoErr THEN d.merr ELSE c.gerr
                    /\ ((c.ob = "err" <=> d.ob = "err") /\ (c.mb = "err" <=> d.mb = "err")) =>
                          d.gerr = c.gerr
              /\ (c.op \in FanOutOps /\ Joined(c) /\ d.pc = "returned") =>
                    /\ d.hasResp <=> (c.ob # "err" /\ c.mb # "err")
                    /\ d.hasResp <=> (d.err = NoErr)
                    /\ d.err = c.gerr
      ]_vars

C12_Witness ==
    \E p \in Procs :
        /\ calls[p].op \in FanOutOps /\ Joined(calls[p])
        /\ calls[p].ob = "err" /\ calls[p].mb = "err"
        /\ calls[p].oerr # calls[p].merr
        /\ calls[p].gerr = calls[p].merr

\* C13 as stated: when the caller's context is cancelled while Index,
\* GetFromIndex or UpdateIndex is in progress, the operation returns the
\* cancellation as its error.
C13_CancellationIsReported ==
    \A p \in Procs :
        LET c == calls[p]
        IN  (c.op \in FanOutOps /\ Joined(c) /\ c.ctxDone) =>
                /\ Returned(c).err = Canceled
                /\ ~Returned(c).hasResp

\* an Index call past generateUUID whose last probe said "does not exist"
ProbedAbsent(c) ==
    /\ c.op = "Index" /\ c.pc = "fanout"
    /\ Len(c.cands) >= 1
    /\ c.cands[Len(c.cands)].id = c.id
    /\ ~c.cands[Len(c.cands)].exists

\* C14: two Index calls that run at once can both be told by Stat that the
\* same candidate does not exist, before either has written; both then hold
\* (and return) the same identifier, and the Put that comes later replaces the
\* object the earlier Put stored, the object store keeping one object.
C14_ProbeThenPutRace ==
    [][\A p \in Procs : \A q \in Procs \ {p} :
          LET c == calls[p]
              e == calls[q]
          IN  (/\ c.op = "Index" /\ c.pc = "fanout"
               /\ e.op = "Index" /\ e.pc = "fanout"
               /\ c.id = e.id
               /\ c.ob = "put" /\ calls'[p].ob = "ok"
               /\ e.ob = "ok") =>
                  /\ ProbedAbsent(c) /\ ProbedAbsent(e)
                  /\ c.id \in DOMAIN objects
                  /\ objects[c.id] = e.object
                  /\ objects'[c.id] = calls'[p].object
                  /\ DOMAIN objects' = DOMAIN objects
      ]_vars

C14_Witness ==
    \E p \in Procs : \E q \in Procs \ {p} :
        /\ ProbedAbsent(calls[p]) /\ ProbedAbsent(calls[q])
        /\ calls[p].id = calls[q].id
        /\ calls[p].ob = "ok" /\ calls[q].ob = "ok"
        /\ Joined(calls[p]) /\ Joined(calls[q])
        /\ Returned(calls[p]).respId = Returned(calls[q]).respId
        /\ Returned(calls[p]).hasResp /\ Returned(calls[q]).hasResp
        /\ calls[p].object # calls[q].object
        /\ objects[calls[p].id] = calls[p].object
        /\ NumOfObects = 1

\* C15 as stated: when two Upserts on the same id of one in-memory document
\* store run at once and both return, the stored document has the keys of
\* both incoming documents (no update is lost).
C15_NoLostUpsert ==
    \A p \in Procs : \A q \in Procs \ {p} :
        LET c == calls[p]
            e == calls[q]
        IN  (/\ c.op = "DocumentStore.Upsert" /\ c.pc = "returned" /\ c.hasResp
             /\ e.op = "DocumentStore.Upsert" /\ e.pc = "returned" /\ e.hasResp
             /\ c.id = e.id) =>
                /\ c.id \in DOMAIN docs
                /\ (DOMAIN c.doc) \cup (DOMAIN e.doc) \subseteq DOMAIN docs[c.id]

\* the step begins (and, for a call of one step, completes) the store call op at p
Begins(p, op) == CanBegin(p) /\ calls'[p] # calls[p] /\ calls'[p].op = op

\* C16: on an id that is not in the store (never written, or deleted), Get,
\* Update and Delete of the object store fail with ObjectDoesNotExistErr{id},
\* Get and Delete of the document store with DocumentDoesNotExistErr{id}, Stat
\* of either store returns {Exists: false, Size: 0} and no error, and none of
\* these calls changes a store.
C16_AbsentIdIsNotFound ==
    [][\A p \in Procs :
          LET d == calls'[p]
          IN  /\ (/\ \/ Begins(p, "ObjectStore.Get")
                     \/ Begins(p, "ObjectStore.Update")
                     \/ Begins(p, "ObjectStore.Delete")
                  /\ d.id \notin DOMAIN objects) =>
                    /\ d.pc = "returned"
                    /\ d.err = ObjectDoesNotExistErr(d.id)
                    /\ d.err.id = d.id
                    /\ ~d.hasResp
                    /\ objects' = objects /\ docs' = docs
              /\ (/\ \/ Begins(p, "DocumentStore.Get")
                     \/ Begins(p, "DocumentStore.Delete")
                  /\ d.id \notin DOMAIN docs) =>
                    /\ d.pc = "returned"
                    /\ d.err = DocumentDoesNotExistErr(d.id)
                    /\ d.err.id = d.id
                    /\ ~d.hasResp
                    /\ objects' = objects /\ docs' = docs
              /\ (Begins(p, "ObjectStore.Stat") /\ d.id \notin DOMAIN objects) =>
                    /\ d.pc = "returned"
                    /\ d.err = NoErr
                    /\ d.stat = [Exists |-> FALSE, Size |-> 0]
                    /\ objects' = objects /\ docs' = docs
              /\ (Begins(p, "DocumentStore.Stat") /\ d.id \notin DOMAIN docs) =>
                    /\ d.pc = "returned"
                    /\ d.err = NoErr
                    /\ d.stat = [Exists |-> FALSE, Size |-> 0]
                    /\ objects' = objects /\ docs' = docs
      ]_vars

C16_Witness ==
    /\ calls[1].op = "ObjectStore.Update" /\ calls[1].pc = "returned"
    /\ calls[1].err = ObjectDoesNotExistErr(Render(0))
    /\ EmptyId \in DOMAIN objects
    /\ Render(0) \notin DOMAIN objects
    /\ Render(0) \in DOMAIN docs

C18_UpsertMerges ==
    [][\A p \in Procs :
          LET c == calls[p]
              d == calls'[p]
          IN  /\ (c.op = "DocumentStore.Upsert" /\ c.pc = "call" /\ d.pc = "returned") =>
                    /\ d.err = NoErr
                    /\ c.loadedOk <=> c.id \in DOMAIN docs
                    /\ c.id \in DOMAIN docs'
                    /\ ~c.loadedOk => docs'[c.id] = c.doc
                    /\ c.loadedOk =>
                          /\ DOMAIN docs'[c.id] = (DOMAIN c.doc) \cup (DOMAIN docs[c.id])
                          /\ \A k \in (DOMAIN c.doc) \ (DOMAIN docs[c.id]) :
                                docs'[c.id][k] = c.doc[k]
                          /\ \A k \in (DOMAIN docs[c.id]) \ (DOMAIN c.doc) :
                                docs'[c.id][k] = docs[c.id][k]
                    /\ (c.loadedOk /\ c.doc = D1("b", Num(2)) /\ docs[c.id] = D1("a", Num(1))) =>
                          /\ docs'[c.id] = D2("a", Num(1), "b", Num(2))
                          /\ GetDocument(c.id)' = [err |-> NoErr, doc |-> D2("a", Num(1), "b", Num(2))]
                    /\ \A i \in (DOMAIN docs) \ {c.id} : i \in DOMAIN docs' /\ docs'[i] = docs[i]
              /\ (Begins(p, "DocumentStore.Get") /\ d.id \in DOMAIN docs) =>
                    /\ d.err = NoErr /\ d.respDoc = docs[d.id]
      ]_vars

C18_Witness ==
    /\ calls[1].op = "DocumentStore.Upsert" /\ calls[1].pc = "returned"
    /\ calls[1].doc = D1("b", Num(2))
    /\ docs[calls[1].id] = D2("a", Num(1), "b", Num(2))

RECURSIVE IsMergeOf(_, _, _)
\* r has the keys of both documents; a key of one side has that side's value; a
\* key whose values are nested documents on both sides has their merge; any
\* other key of both sides has the value of the incoming document
IsMergeOf(r, incoming, stored) ==
    /\ DOMAIN r = (DOMAIN incoming) \cup (DOMAIN stored)
    /\ \A k \in DOMAIN r :
          IF k \notin DOMAIN stored THEN r[k] = incoming[k]
          ELSE IF k \notin DOMAIN incoming THEN r[k] = stored[k]
          ELSE IF IsDoc(incoming[k]) /\ IsDoc(stored[k])
               THEN IsDoc(r[k]) /\ IsMergeOf(r[k].d, incoming[k].d, stored[k].d)
               ELSE r[k] = incoming[k]

\* C19: the merge of an incoming with a stored document recurses into nested
\* documents: {"a":{"x":1}} onto {"a":{"y":2}} gives {"a":{"x":1,"y":2}}, and
\* two nested documents under the same key are merged key by key at every depth.
C19_MergeRecurses ==
    \A p \in Procs :
        LET c == calls[p]
        IN  (c.op = "mergeDocs" /\ c.pc = "returned") =>
                /\ IsMergeOf(c.respDoc, c.doc, c.loaded)
                /\ (c.doc = D1("a", Sub(D1("x", Num(1)))) /\ c.loaded = D1("a", Sub(D1("y", Num(2))))) =>
                      c.respDoc = D1("a", Sub(D2("x", Num(1), "y", Num(2))))

C19_Witness ==
    /\ calls[1].op = "mergeDocs" /\ calls[1].pc = "returned"
    /\ calls[1].doc = D1("a", Sub(D1("x", Sub(D1("y", Num(1))))))
    /\ calls[1].loaded = D1("a", Sub(D1("x", Sub(D1("b", Num(2))))))
    /\ calls[1].respDoc = D1("a", Sub(D1("x", Sub(D2("y", Num(1), "b", Num(2))))))

\* some key has a scalar in the incoming and a nested document in the stored document
ScalarOverNested(incoming, stored) ==
    \E k \in (DOMAIN incoming) \cap (DOMAIN stored) : ~IsDoc(incoming[k]) /\ IsDoc(stored[k])

\* C20: an Upsert whose document has a scalar where the stored document has a
\* nested document (as {"a":5} onto {"a":{"y":2}}) panics: it does not return,
\* the stored document stays as it was, and nothing runs after the panic.
C20_TypeConflictPanics ==
    [][\A p \in Procs :
          LET c == calls[p]
              d == calls'[p]
          IN  /\ (/\ c.op = "DocumentStore.Upsert" /\ c.pc = "call"
                  /\ c.loadedOk /\ ScalarOverNested(c.doc, c.loaded)
                  /\ d # c) =>
                    /\ d.pc = "panicked"
                    /\ ~d.hasResp
                    /\ crashed'
                    /\ docs' = docs
              /\ crashed => (crashed' /\ docs' = docs /\ calls' = calls)
      ]_vars

C20_Witness ==
    /\ calls[1].op = "DocumentStore.Upsert" /\ calls[1].pc = "panicked"
    /\ crashed
    /\ calls[1].doc = D1("a", Num(5))
    /\ docs[calls[1].id] = D1("a", Sub(D1("y", Num(2))))

\* some key has a nested document in the incoming and a scalar in the stored document
NestedOverScalar(incoming, stored) ==
    \E k \in (DOMAIN incoming) \cap (DOMAIN stored) : IsDoc(incoming[k]) /\ ~IsDoc(stored[k])

\* C21: an Upsert whose document has a nested document where the stored
\* document has a scalar (as {"a":{"y":2}} onto {"a":5}) panics as well, and
\* the stored scalar is not replaced by the nested document.
C21_ConflictBothDirections ==
    [][\A p \in Procs :
          LET c == calls[p]
              d == calls'[p]
          IN  (/\ c.op = "DocumentStore.Upsert" /\ c.pc = "call"
               /\ c.loadedOk /\ NestedOverScalar(c.doc, c.loaded)
               /\ d # c) =>
                 /\ d.pc = "panicked"
                 /\ docs' = docs
      ]_vars

\* an Upsert returns after merging into an existing document
UpsertMerged(c, d) ==
    /\ c.op = "DocumentStore.Upsert" /\ c.pc = "call" /\ c.loadedOk
    /\ d.pc = "returned"

\* C22 as stated: under a key of both documents whose incoming value is a
\* scalar, the value stored after the Upsert is the one stored before it.
C22_Original ==
    [][\A p \in Procs :
          LET c == calls[p]
              d == calls'[p]
          IN  UpsertMerged(c, d) =>
                 \A k \in (DOMAIN c.doc) \cap (DOMAIN docs[c.id]) :
                     ~IsDoc(c.doc[k]) => docs'[c.id][k] = docs[c.id][k]
      ]_vars

\* C22: under a key of both documents whose incoming value is a scalar, an
\* Upsert that returns found a scalar stored there, and the value stored
\* after it is the incoming one: the value stored before is discarded.
C22_IncomingScalarWins ==
    [][\A p \in Procs :
          LET c == calls[p]
              d == calls'[p]
          IN  UpsertMerged(c, d) =>
                 \A k \in (DOMAIN c.doc) \cap (DOMAIN docs[c.id]) :
                     ~IsDoc(c.doc[k]) =>
                        /\ ~IsDoc(docs[c.id][k])
                        /\ docs'[c.id][k] = c.doc[k]
      ]_vars

C22_Witness ==
    /\ calls[1].op = "DocumentStore.Upsert" /\ calls[1].pc = "returned"
    /\ calls[1].loadedOk
    /\ calls[1].doc = D1("a", Num(5))
    /\ calls[1].loaded = D1("a", Num(1))
    /\ docs[calls[1].id] = D1("a", Num(5))

RECURSIVE KeyPaths(_)
\* the key paths of a document, at every depth
KeyPaths(doc) ==
    UNION { {<<k>>} \cup (IF IsDoc(doc[k])
                          THEN {<<k>> \o q : q \in KeyPaths(doc[k].d)}
                          ELSE {}) : k \in DOMAIN doc }

\* C23: an Upsert that returns after merging into an existing document
\* leaves a document with every key path of the document stored before and
\* every key path of the incoming document, at every depth.
C23_MergeKeepsKeyPaths ==
    [][\A p \in Procs :
          LET c == calls[p]
              d == calls'[p]
          IN  UpsertMerged(c, d) =>
                 /\ c.id \in DOMAIN docs'
                 /\ KeyPaths(docs[c.id]) \subseteq KeyPaths(docs'[c.id])
                 /\ KeyPaths(c.doc) \subseteq KeyPaths(docs'[c.id])
      ]_vars

C23_Witness ==
    /\ calls[1].op = "DocumentStore.Upsert" /\ calls[1].pc = "returned"
    /\ calls[1].loadedOk
    /\ calls[1].doc = D1("a", Sub(D1("x", Num(1))))
    /\ calls[1].loaded = D1("a", Sub(D1("y", Num(2))))
    /\ KeyPaths(docs[calls[1].id]) = {<<"a">>, <<"a", "x">>, <<"a", "y">>}

\* C24: Upsert(id, d) on a stored document equal to d returns and leaves the
\* stored document equal to d, nested or not.
C24_MergeWithItself ==
    [][\A p \in Procs :
          LET c == calls[p]
              d == calls'[p]
          IN  (/\ c.op = "DocumentStore.Upsert" /\ c.pc = "call"
               /\ c.loadedOk /\ docs[c.id] = c.doc
               /\ d # c) =>
                 /\ d.pc = "returned" /\ d.err = NoErr
                 /\ ~crashed'
                 /\ docs' = docs
      ]_vars

C24_Witness ==
    /\ calls[1].op = "DocumentStore.Upsert" /\ calls[1].pc = "returned"
    /\ calls[1].loadedOk
    /\ calls[1].doc = D1("a", Sub(D1("x", Num(1))))
    /\ calls[1].loaded = D1("a", Sub(D1("x", Num(1))))
    /\ docs[calls[1].id] = D1("a", Sub(D1("x", Num(1))))

\* C25: Index called without metadata succeeds; the object is stored under the
\* new identifier, the metadata branch is not started, the document store
\* holds what it held when the call began, and no document is under the
\* identifier.
C25_IndexWithoutMetadata ==
    \A p \in Procs :
        LET c == calls[p]
            r == Returned(c)
        IN  (c.op = "Index" /\ Joined(c) /\ ~c.hasMeta) =>
                /\ r.err = NoErr /\ r.hasResp
                /\ c.mb = "none"
                /\ r.respId \in DOMAIN objects
                /\ objects[r.respId] = c.object
                /\ r.respId \notin DOMAIN docs
                /\ NumOfObects = c.nObj0 + 1
                /\ NumOfDocs = c.nDoc0

C25_Witness ==
    \E p \in Procs :
        /\ calls[p].op = "Index" /\ Joined(calls[p])
        /\ ~calls[p].hasMeta /\ calls[p].ob = "ok"
        /\ calls[p].nDoc0 = 1
        /\ calls[p].id \in DOMAIN objects

\* ReadParts has returned in call c
ReadPartsReturned(c) == c.op = "ReadParts" /\ c.pc = "returned"

\* C26: for every declared content type that is not multipart/form-data,
\* ReadParts fails with ContentTypeError carrying the media type, returns
\* neither metadata nor object and has read nothing of the body.
C26_OtherTypesRejected ==
    \A p \in Procs :
        LET c == calls[p]
            ct == c.req.contentType
        IN  (ReadPartsReturned(c) /\ (ct.malformed \/ ~IsMultipartFormData(ct.mediaType))) =>
                /\ c.parts.err.kind = "ContentTypeError"
                /\ ~ct.malformed => c.parts.err = ContentTypeError(ct.mediaType)
                /\ ~c.parts.hasMeta /\ ~c.parts.hasObj
                /\ c.parts.read = 0

\* C27: for the content type multipart/form-data without a boundary parameter
\* ReadParts fails with ErrMissingBoundary, returns neither part and has read
\* nothing of the body.
C27_MissingBoundary ==
    \A p \in Procs :
        LET c == calls[p]
            ct == c.req.contentType
        IN  (/\ ReadPartsReturned(c)
             /\ ~ct.malformed /\ IsMultipartFormData(ct.mediaType) /\ ~ct.boundary) =>
                /\ c.parts.err = ErrMissingBoundary
                /\ ~c.parts.hasMeta /\ ~c.parts.hasObj
                /\ c.parts.read = 0

C27_Witness ==
    /\ ReadPartsReturned(calls[1])
    /\ calls[1].req.contentType = ContentType(FALSE, MediaType("multipart/form-data", ""), FALSE)
    /\ calls[1].req.body = <<ObjectPart(<<1>>, FALSE)>>
    /\ calls[1].parts.err = ErrMissingBoundary

\* the content type lets ReadParts scan the body
Scanned(ct) == ~ct.malformed /\ HasMultipartPrefix(ct.mediaType) /\ ct.boundary

\* the body with its parts i and j exchanged, resp. without its part i
Swap(body, i, j) ==
    [k \in 1..Len(body) |-> IF k = i THEN body[j] ELSE IF k = j THEN body[i] ELSE body[k]]

Drop(body, i) == SubSeq(body, 1, i - 1) \o SubSeq(body, i + 1, Len(body))

\* at most one part is named "metadata" and at most one "object"
NamedOnce(body) ==
    \A i, j \in 1..Len(body) :
        (i # j /\ body[i].name = body[j].name) => body[i].name \notin {"metadata", "object"}

\* reading or decoding the part fails
PartFails(part) == ReadPart(NoParts, part).err # NoPartErr

\* the (metadata, object) pair returned
Pair(parts) ==
    [hasMeta |-> parts.hasMeta, metadata |-> parts.metadata,
     hasObj |-> parts.hasObj, object |-> parts.object]

\* C28: for a body none of whose parts fails to be read or decoded, ReadParts
\* returns no error, and the same pair with no error after exchanging two
\* parts of the body or leaving out a part of another name.
C28_OrderOfPartsIrrelevant ==
    \A p \in Procs :
        LET c == calls[p]
            ct == c.req.contentType
            body == c.req.body
        IN  (/\ ReadPartsReturned(c) /\ Scanned(ct) /\ NamedOnce(body)
             /\ \A i \in 1..Len(body) : ~PartFails(body[i])) =>
                /\ c.parts.err = NoPartErr
                /\ c.parts.read = Len(body)
                /\ \A i, j \in 1..Len(body) :
                      /\ Pair(ReadParts(ct, Swap(body, i, j))) = Pair(c.parts)
                      /\ ReadParts(ct, Swap(body, i, j)).err = NoPartErr
                /\ \A i \in 1..Len(body) :
                      body[i].name \notin {"metadata", "object"} =>
                         /\ Pair(ReadParts(ct, Drop(body, i))) = Pair(c.parts)
                         /\ ReadParts(ct, Drop(body, i)).err = NoPartErr

C28_Witness ==
    /\ ReadPartsReturned(calls[1])
    /\ Scanned(calls[1].req.contentType)
    /\ calls[1].req.body =
          <<ObjectPart(<<1>>, FALSE), FilePart(<<1>>, FALSE),
            MetadataPart(<<JArr, JObj(<<Member("a", JNum(1))>>)>>, TRUE)>>
    /\ calls[1].parts.hasMeta /\ calls[1].parts.metadata = JArr
    /\ calls[1].parts.hasObj /\ calls[1].parts.object = <<1>>

\* the parts of the body with the given name
Named(body, name) == {i \in 1..Len(body) : body[i].name = name}

\* C29: for a body none of whose parts fails, ReadParts returns no error;
\* without a "metadata" part metadata is nil, without an "object" part object
\* is nil, and the part that is there gives its JSON value, resp. its bytes.
C29_AbsentPartIsNoError ==
    \A p \in Procs :
        LET c == calls[p]
            body == c.req.body
        IN  (/\ ReadPartsReturned(c) /\ Scanned(c.req.contentType) /\ NamedOnce(body)
             /\ \A i \in 1..Len(body) : ~PartFails(body[i])) =>
                /\ c.parts.err = NoPartErr
                /\ c.parts.hasMeta <=> Named(body, "metadata") # {}
                /\ c.parts.hasObj <=> Named(body, "object") # {}
                /\ \A i \in Named(body, "metadata") : c.parts.metadata = body[i].json[1]
                /\ \A i \in Named(body, "object") : c.parts.object = body[i].bytes
                /\ Named(body, "metadata") = {} => c.parts.metadata = NoParts.metadata
                /\ Named(body, "object") = {} => c.parts.object = NoParts.object

C29_Witness ==
    /\ ReadPartsReturned(calls[1])
    /\ Scanned(calls[1].req.contentType)
    /\ calls[1].req.body = <<ObjectPart(<<1>>, FALSE)>>
    /\ ~calls[1].parts.hasMeta
    /\ calls[1].parts.hasObj /\ calls[1].parts.object = <<1>>
    /\ calls[1].parts.err = NoPartErr

\* C30: the Index handler answers 400 when ReadParts fails with
\* ContentTypeError or with ErrMissingBoundary and 500 when ReadParts or Index
\* fails otherwise, and when it answers so the stores hold what they held
\* when the request arrived.
C30_HandlerStatuses ==
    \A p \in Procs :
        LET c == calls[p]
            r == Returned(c)
        IN  /\ (c.op = "IndexHandler" /\ c.pc = "returned" /\ c.parts.err # NoPartErr) =>
                  /\ c.status = IF c.parts.err.kind \in {"ContentTypeError", "ErrMissingBoundary"}
                                THEN StatusBadRequest ELSE StatusInternalServerError
                  /\ NumOfObects = c.nObj0 /\ NumOfDocs = c.nDoc0
            /\ (c.op = "Index" /\ c.viaHttp /\ Joined(c) /\ r.err # NoErr) =>
                  /\ r.status = StatusInternalServerError
                  /\ NumOfObects = c.nObj0 /\ NumOfDocs = c.nDoc0

\* C31: a request that ReadParts decodes without error and without an
\* "object" part, with or without metadata, is answered by the handler itself
\* with status 400 and ErrMissingObjectPart: no identifier is allocated, the
\* source of randomness is not read and both stores hold what they held.
C31_MissingObjectIsBadRequest ==
    \A p \in Procs :
        LET c == calls[p]
        IN  (c.viaHttp /\ c.parts.err = NoPartErr /\ ~c.parts.hasObj) =>
                /\ c.op = "IndexHandler" /\ c.pc = "returned"
                /\ c.status = StatusBadRequest
                /\ c.err = ErrMissingObjectPart
                /\ c.id = EmptyId /\ c.cands = <<>>
                /\ rander.pos = c.pos0
                /\ NumOfObects = c.nObj0 /\ NumOfDocs = c.nDoc0

C31_Witness ==
    /\ calls[1].op = "IndexHandler" /\ calls[1].pc = "returned"
    /\ calls[1].parts.err = NoPartErr
    /\ calls[1].parts.hasMeta /\ ~calls[1].parts.hasObj
    /\ calls[1].status = StatusBadRequest
    /\ NumOfObects = 1

\* C32: every call of the mutex-guarded object store that waits for the
\* store's lock gets it and returns, whatever calls returned before it, an
\* Update of an absent id with ObjectDoesNotExistErr included.
C32_LockIsReleased ==
    \A p \in Procs : (calls[p].pc = "lock") ~> (calls[p].pc = "returned")

\* C33: on a store on which only Update and Delete are called, when an
\* Update and a Delete of the same id have both returned without error the
\* object is absent: no Update stores an object that a Delete has removed.
C33_UpdateDeleteAtomic ==
    \A p \in Procs : \A q \in Procs \ {p} :
        LET c == calls[p]
            e == calls[q]
        IN  (/\ c.op = "ObjectStore.Update" /\ c.pc = "returned" /\ c.err = NoErr
             /\ e.op = "ObjectStore.Delete" /\ e.pc = "returned" /\ e.err = NoErr
             /\ c.id = e.id) =>
                c.id \notin DOMAIN objects

\* C34: the Upsert of UpdateIndex's metadata branch never inserts: when no
\* document is under the id as the Upsert stores, none is under it afterwards.
C34_UpdateNeverInserts ==
    [][\A p \in Procs :
          LET c == calls[p]
              d == calls'[p]
          IN  (/\ c.op = "UpdateIndex" /\ c.pc = "fanout"
               /\ c.mb = "ups_store" /\ d.mb = "ok"
               /\ c.id \notin DOMAIN docs) =>
                 c.id \notin DOMAIN docs'
      ]_vars

\* C35: from empty in-memory stores, with Index, GetFromIndex, UpdateIndex and
\* DeleteFromIndex called one at a time, whenever no call is in flight every
\* identifier of the document store is one of the object store.
C35_DocumentHasObject ==
    ((\A p \in Procs : ~InFlight(p)) /\ ~crashed) =>
        (DOMAIN docs) \subseteq (DOMAIN objects)

C35_Witness ==
    /\ \A p \in Procs : ~InFlight(p)
    /\ calls[1].op = "UpdateIndex" /\ calls[1].pc = "returned" /\ calls[1].err = NoErr
    /\ Cardinality(DOMAIN docs) = 1
    /\ Cardinality(DOMAIN objects) = 2

\* C36: an Index call, no other call running, writes under its identifier
\* only, which is in neither store until the call writes it there; what is
\* stored under every other identifier stays as it is; and when its branches
\* are over the object store holds one identifier more than when it began, so
\* that the identifier differs from all those returned before.
C36_IndexWritesUnderFreshId ==
    [][\A p \in Procs :
          LET c == calls[p]
          IN  (c.op = "Index" /\ c.pc \in {"gen", "fanout"}) =>
                 /\ \A i \in DOMAIN objects :
                       i # c.id => (i \in DOMAIN objects' /\ objects'[i] = objects[i])
                 /\ \A i \in DOMAIN docs :
                       i # c.id => (i \in DOMAIN docs' /\ docs'[i] = docs[i])
                 /\ objects' # objects =>
                       /\ c.id \notin DOMAIN objects
                       /\ DOMAIN objects' = (DOMAIN objects) \cup {c.id}
                       /\ c.id \in DOMAIN docs => c.mb = "ok"
                 /\ docs' # docs =>
                       /\ c.id \notin DOMAIN docs
                       /\ DOMAIN docs' = (DOMAIN docs) \cup {c.id}
                       /\ c.id \in DOMAIN objects => c.ob = "ok"
                 /\ Joined(c) => NumOfObects = c.nObj0 + 1
      ]_vars

C36_Witness ==
    \E p \in Procs :
        /\ calls[p].op = "Index" /\ Joined(calls[p])
        /\ calls[p].ob = "ok" /\ calls[p].mb = "ok"
        /\ calls[p].nObj0 = 1 /\ calls[p].nDoc0 = 1
        /\ NumOfObects = 2 /\ NumOfDocs = 2

\* the first part of the body that fails, 0 if none does
FirstFailing(body) ==
    IF \E i \in 1..Len(body) : PartFails(body[i])
    THEN CHOOSE i \in 1..Len(body) :
            PartFails(body[i]) /\ \A j \in 1..(i - 1) : ~PartFails(body[j])
    ELSE 0

\* C37: when a part of the body fails to be read or decoded, ReadParts
\* returns the error of the first such part as it is, has got no further than
\* that part, and returns what it would return were that part the last.
C37_ScanStopsAtFailure ==
    \A p \in Procs :
        LET c == calls[p]
            body == c.req.body
            k == FirstFailing(body)
        IN  (ReadPartsReturned(c) /\ Scanned(c.req.contentType) /\ k > 0) =>
                /\ c.parts.err = ReadPart(NoParts, body[k]).err
                /\ c.parts.read = k
                /\ c.parts = ReadParts(c.req.contentType, SubSeq(body, 1, k))

C37_Witness ==
    /\ ReadPartsReturned(calls[1])
    /\ Scanned(calls[1].req.contentType)
    /\ calls[1].req.body =
          <<ObjectPart(<<1>>, FALSE), MetadataPart(<<>>, FALSE), ObjectPart(<<>>, FALSE)>>
    /\ calls[1].parts.err = SyntaxErr
    /\ calls[1].parts.object = <<1>>
    /\ calls[1].parts.read = 2

====
